---- MODULE Spec2Model ----
(***************************************************************************)
(* Model of the two varint codecs of varint_test:                          *)
(*   varint_gb.rs  GroupBinary  (VarintGBFactory, VarintGB, Iter,           *)
(*                 DescriptorTable, the scalar and the vector decoders)    *)
(*   varint_su.rs  SimpleUnary  (VarintSUFactory, VarintSU, Iter)           *)
(*                                                                         *)
(* TLC integers are 32-bit signed, so a u32 / usize value n is held as the *)
(* pair <<n \div 2^16, n % 2^16>> (high limb, low limb); all arithmetic of *)
(* the source on such values is done limb-wise below.  Small counters      *)
(* (len, indices, bytes) are plain integers.  Indices are 0-based as in    *)
(* the source; At(s, i) reads element i of a sequence.                     *)
(***************************************************************************)
EXTENDS Integers, Sequences, FiniteSets

VARIABLES
    codec,      \* which factory the caller drives: "gb" or "su"
    gb,         \* VarintGBFactory
    su,         \* VarintSUFactory
    gb_seq,     \* VarintGB  (the sequence handed out by the last into_varint_gb)
    su_seq,     \* VarintSU  (the sequence handed out by the last into_varint_su)
    gb_iter,    \* varint_gb::Iter over gb_seq
    su_iter,    \* varint_su::Iter over su_seq
    out,        \* the integers the iterator has yielded so far, in order
    pushed,     \* arguments of the push_int calls since new() / the last finalize
    src,        \* arguments of the push_int calls that built the sealed sequence
    ncalls,     \* number of push calls made on the factory
    nfinal,     \* number of finalize calls made on the factory
    lastOp,     \* the last call made on the factory: <<name, argument, repeated>>
    fault,      \* "none", or the panic that ended the run
    rd,         \* what the last GroupBinary Iter::next read
    enc,        \* what the last SimpleUnary push_int emitted
    probe       \* one descriptor and 16 bytes, and what both decoders made of them

vars == <<codec, gb, su, gb_seq, su_seq, gb_iter, su_iter, out, pushed, src,
          ncalls, nfinal, lastOp, fault, rd, enc, probe>>

----------------------------------------------------------------------------
(* Bounds of the model *)

\* push calls on a GroupBinary factory before it is finalized
MaxPushGB == 5
\* push calls on a SimpleUnary factory before it is finalized
MaxPushSU == 3
\* finalize calls on one factory
MaxFinalize == 2
\* factory calls in the call-by-call specification SpecCalls
MaxCalls == 3

\* the 16-byte chunks handed to the two chunk decoders start on one of
\* MaxProbeSeed + 1 byte values
MaxProbeSeed == 3

----------------------------------------------------------------------------
(* Two-limb naturals *)

W == 2^16

Norm(hi, lo) == <<hi + (lo \div W), lo % W>>

U(n) == <<n \div W, n % W>>

Zero == <<0, 0>>

U32MAX == <<W - 1, W - 1>>

Lt(a, b) == a[1] < b[1] \/ (a[1] = b[1] /\ a[2] < b[2])

Le(a, b) == a = b \/ Lt(a, b)

Add(a, b) == Norm(a[1] + b[1], a[2] + b[2])

FitsU32(a) == a[1] < W

Wrap32(a) == <<a[1] % W, a[2]>>

\* a - b on u32 with wrap-around (a, b < 2^32)
SubWrap32(a, b) ==
    LET lo == a[2] - b[2]
        borrow == IF lo < 0 THEN 1 ELSE 0
        hi == a[1] - b[1] - borrow
    IN  <<hi % W, lo % W>>

MulSmall(a, k) == Norm(a[1] * k, a[2] * k)

Div128(a) == <<a[1] \div 128, (a[1] % 128) * 512 + (a[2] \div 128)>>

Mod128(a) == a[2] % 128

At(s, i) == s[i + 1]

\* the element of a one-element set
The(S) == CHOOSE x \in S : TRUE

StrictlyIncreasing(s) == \A i \in 1..(Len(s) - 1) : Lt(s[i], s[i + 1])

NonDecreasing(s) == \A i \in 1..(Len(s) - 1) : Le(s[i], s[i + 1])

----------------------------------------------------------------------------
(* Byte-level helpers *)

RECURSIVE Xor8(_, _)
Xor8(a, b) ==
    IF a = 0 THEN b
    ELSE IF b = 0 THEN a
    ELSE (((a % 2) + (b % 2)) % 2) + 2 * Xor8(a \div 2, b \div 2)

Shl8(v, s) == (v * 2^s) % 256

\* u32::to_ne_bytes on x86_64 (the only target varint_gb.rs compiles for)
to_ne_bytes(d) == <<d[2] % 256, d[2] \div 256, d[1] % 256, d[1] \div 256>>

\* the stripping loop stopping at two bytes instead of one
RECURSIVE strip_trailing_zeros_min_two(_)
strip_trailing_zeros_min_two(x_bytes) ==
    IF Len(x_bytes) > 2 /\ x_bytes[Len(x_bytes)] = 0
    THEN strip_trailing_zeros_min_two(SubSeq(x_bytes, 1, Len(x_bytes) - 1))
    ELSE x_bytes

\* the trailing-zero stripping loop of push_int
RECURSIVE strip_trailing_zeros(_)
strip_trailing_zeros(x_bytes) ==
    IF Len(x_bytes) > 1 /\ x_bytes[Len(x_bytes)] = 0
    THEN strip_trailing_zeros(SubSeq(x_bytes, 1, Len(x_bytes) - 1))
    ELSE x_bytes

----------------------------------------------------------------------------
(* VarintGBFactory *)

GBFactory_new ==
    [byte_stream |-> <<>>, top |-> Zero, descriptor_index |-> 0,
     index_in_chunk |-> 0, bytes_in_current_chunk |-> 0,
     no_of_chunks |-> 0, len |-> 0]

\* lines 114-122: count the value and open a new chunk when needed
gb_open_chunk(f) ==
    LET f1 == [f EXCEPT !.len = f.len + 1]
    IN  IF f.index_in_chunk = 0
        THEN [f1 EXCEPT !.byte_stream = Append(f.byte_stream, 0),
                        !.descriptor_index = Len(f.byte_stream),
                        !.bytes_in_current_chunk = 0,
                        !.no_of_chunks = f.no_of_chunks + 1]
        ELSE f1

\* VarintGBFactory::push_int.  checks: the build has overflow checks on
\* (a debug build panics on x - top underflow, a release build wraps).
\* Returns the factory as the call leaves it and the panic, if any.
gb_push_int(f, x, checks) ==
    LET f1 == gb_open_chunk(f)
    IN  IF Lt(x, f.top) /\ checks
        THEN [f |-> f1, fault |-> "overflow"]
        ELSE
        LET delta == SubWrap32(x, f.top)
            x_bytes == strip_trailing_zeros(to_ne_bytes(delta))
            int_len == Len(x_bytes) - 1
            f2 == [f1 EXCEPT !.top = x,
                             !.byte_stream = f1.byte_stream \o x_bytes,
                             !.bytes_in_current_chunk =
                                 (f1.bytes_in_current_chunk + int_len) % 256]
            shifted == Shl8(int_len, f.index_in_chunk * 2)
        IN  IF f2.descriptor_index >= Len(f2.byte_stream)
            THEN [f |-> f2, fault |-> "index"]
            ELSE [f |-> [f2 EXCEPT
                           !.byte_stream[f2.descriptor_index + 1] =
                               Xor8(At(f2.byte_stream, f2.descriptor_index), shifted),
                           !.index_in_chunk = (f.index_in_chunk + 1) % 4],
                  fault |-> "none"]

\* push_if_not_on_top without the comparison with top
gb_push_if_not_on_top_always(f, num, checks) == gb_push_int(f, num, checks)

\* VarintGBFactory::push_if_not_on_top
gb_push_if_not_on_top(f, num, checks) ==
    IF f.top # num THEN gb_push_int(f, num, checks)
    ELSE [f |-> f, fault |-> "none"]

\* VarintGBFactory::into_varint_gb: the sealed sequence and the factory left behind
gb_into_varint_gb(f) ==
    [seq |-> [byte_stream |-> f.byte_stream, len |-> f.len],
     f |-> [f EXCEPT !.byte_stream = <<>>]]

----------------------------------------------------------------------------
(* VarintSUFactory *)

SUFactory_new == [vec |-> <<>>, top |-> Zero, len |-> 0]

\* the continuation loop without the "- 1" of line 105
RECURSIVE su_emit_no_bias(_, _)
su_emit_no_bias(r, k) ==
    IF k = 0 \/ (r.x[1] = 0 /\ r.x[2] < 128) THEN r
    ELSE su_emit_no_bias([x |-> Div128(r.x),
                          bytes |-> Append(r.bytes, 128 + Mod128(r.x))], k - 1)

\* the continuation loop of push_int (lines 97-106): r.x is the running value,
\* r.bytes the bytes pushed so far; k iterations remain
RECURSIVE su_emit(_, _)
su_emit(r, k) ==
    IF k = 0 \/ (r.x[1] = 0 /\ r.x[2] < 128) THEN r
    ELSE su_emit([x |-> SubWrap32(Div128(r.x), U(1)),
                  bytes |-> Append(r.bytes, 128 + Mod128(r.x))], k - 1)

\* the number of iterations of the continuation loop
su_loop_count == 4

\* su_encode with one iteration less of the continuation loop
su_encode_short_loop(x) ==
    LET r == su_emit([x |-> x, bytes |-> <<>>], su_loop_count - 1)
    IN  [bytes |-> Append(r.bytes, r.x[2] % 256), final |-> r.x]

\* the bytes one push_int appends for the biased delta x, and the value
\* that is cast to the final byte
su_encode(x) ==
    LET r == su_emit([x |-> x, bytes |-> <<>>], su_loop_count)
    IN  [bytes |-> Append(r.bytes, r.x[2] % 256), final |-> r.x]

\* VarintSUFactory::push_int
su_push_int(f, int, checks) ==
    IF int = f.top
    THEN [f |-> f, fault |-> "none", enc |-> [bytes |-> <<>>, final |-> Zero]]
    ELSE
    LET f1 == [f EXCEPT !.len = f.len + 1]
    IN  IF Lt(int, f.top) /\ checks
        THEN [f |-> f1, fault |-> "overflow", enc |-> [bytes |-> <<>>, final |-> Zero]]
        ELSE
        LET x == SubWrap32(SubWrap32(int, f.top), U(1))
            e == su_encode(x)
        IN  [f |-> [f1 EXCEPT !.top = int, !.vec = f.vec \o e.bytes],
             fault |-> "none", enc |-> e]

\* VarintSUFactory::push_if_not_on_top
su_push_if_not_on_top(f, int, checks) ==
    IF int # f.top THEN su_push_int(f, int, checks)
    ELSE [f |-> f, fault |-> "none", enc |-> [bytes |-> <<>>, final |-> Zero]]

\* VarintSUFactory::into_varint_su
su_into_varint_su(f) ==
    [seq |-> [bytes |-> f.vec, len |-> f.len],
     f |-> [f EXCEPT !.vec = <<>>]]

----------------------------------------------------------------------------
(* DescriptorTable *)

RECURSIVE And8(_, _)
And8(a, b) ==
    IF a = 0 \/ b = 0 THEN 0
    ELSE ((a % 2) * (b % 2)) + 2 * And8(a \div 2, b \div 2)

descriptor_length_i(descriptor, index) ==
    LET mask == Shl8(3, index * 2)
        len == And8(descriptor, mask)
    IN  (len \div 2^(index * 2)) + 1

RECURSIVE descriptor_length_sum(_, _)
descriptor_length_sum(descriptor, n) ==
    IF n = 0 THEN 0
    ELSE descriptor_length_sum(descriptor, n - 1) + descriptor_length_i(descriptor, n - 1)

\* descriptor_length_total over the first three slots only
descriptor_length_total_short(descriptor) == descriptor_length_sum(descriptor, 3)

descriptor_length_total(descriptor) == descriptor_length_sum(descriptor, 4)

\* the double loop of shuffle_sequence_from_descriptor, one output byte per step
RECURSIVE shuffle_fill(_, _, _, _)
shuffle_fill(descriptor, shuffle_index, word_index, shuffle) ==
    IF shuffle_index = 16 THEN shuffle
    ELSE LET i == shuffle_index \div 4
             n == shuffle_index % 4
             word_len == descriptor_length_i(descriptor, i)
         IN  IF n < word_len
             THEN shuffle_fill(descriptor, shuffle_index + 1, word_index + 1,
                               Append(shuffle, word_index))
             ELSE shuffle_fill(descriptor, shuffle_index + 1, word_index,
                               Append(shuffle, -1))

shuffle_sequence_from_descriptor(descriptor) == shuffle_fill(descriptor, 0, 0, <<>>)

\* DescriptorTable::create_entry_for_descriptor
create_entry_for_descriptor(descriptor) ==
    [shuffle_sequence |-> shuffle_sequence_from_descriptor(descriptor),
     length |-> descriptor_length_total(descriptor)]

\* DescriptorTable::new: the 256 entries, built once
DescriptorTable == [descriptor \in 0..255 |-> create_entry_for_descriptor(descriptor)]

\* DescriptorTable::get_entry_for_descriptor
get_entry_for_descriptor(descriptor) == DescriptorTable[descriptor]

----------------------------------------------------------------------------
(* GroupBinary decoders *)

\* a u32 from its four little-endian bytes
FromLe(b0, b1, b2, b3) == <<b2 + 256 * b3, b0 + 256 * b1>>

\* _mm_shuffle_epi8 without the zeroing: a mask byte of -1 selects a source
\* byte by its low four bits like any other
mm_shuffle_epi8_no_zeroing(a, mask) ==
    [j \in 1..16 |-> a[(mask[j] % 16) + 1]]

\* _mm_shuffle_epi8: a mask byte with the high bit set gives 0, otherwise
\* the source byte its low four bits select
mm_shuffle_epi8(a, mask) ==
    [j \in 1..16 |-> IF mask[j] < 0 THEN 0 ELSE a[(mask[j] % 16) + 1]]

\* _mm_loadu_si128 at byte index start of the buffer: 16 bytes, whatever lies
\* behind the buffer (junk) for the positions past its end
mm_loadu_si128(byte_stream, start, junk) ==
    [k \in 1..16 |-> IF start + k - 1 < Len(byte_stream)
                     THEN At(byte_stream, start + k - 1) ELSE junk]

\* decode_chunk_by_address
decode_chunk_by_address(byte_stream, start, shuffle_sequence, junk) ==
    LET v == mm_shuffle_epi8(mm_loadu_si128(byte_stream, start, junk), shuffle_sequence)
    IN  [i \in 1..4 |-> FromLe(v[4 * i - 3], v[4 * i - 2], v[4 * i - 1], v[4 * i])]

\* the inner loop without the early return: a missing byte reads as 0
RECURSIVE safe_read_num_no_stop(_, _, _, _, _)
safe_read_num_no_stop(byte_stream, index, len, pos, bytes) ==
    IF pos = len THEN [ok |-> TRUE, bytes |-> bytes, index |-> index]
    ELSE IF index >= Len(byte_stream)
    THEN safe_read_num_no_stop(byte_stream, index, len, pos + 1, bytes)
    ELSE safe_read_num_no_stop(byte_stream, index + 1, len, pos + 1,
                               [bytes EXCEPT ![pos + 1] = At(byte_stream, index)])

\* the inner loop of decode_chunk_safe_non_simd: reads len bytes from index,
\* or stops at the end of the slice
RECURSIVE safe_read_num(_, _, _, _, _)
safe_read_num(byte_stream, index, len, pos, bytes) ==
    IF pos = len THEN [ok |-> TRUE, bytes |-> bytes, index |-> index]
    ELSE IF index >= Len(byte_stream) THEN [ok |-> FALSE, bytes |-> bytes, index |-> index]
    ELSE safe_read_num(byte_stream, index + 1, len, pos + 1,
                       [bytes EXCEPT ![pos + 1] = At(byte_stream, index)])

\* the outer loop of decode_chunk_safe_non_simd from slot i on.  fields counts
\* the descriptor fields evaluated, index the bytes of the slice consumed
RECURSIVE safe_decode_from(_, _, _, _, _)
safe_decode_from(descriptor, byte_stream, i, index, chunk) ==
    IF i = 4 THEN [chunk |-> chunk, index |-> index, fields |-> 4]
    ELSE LET len == descriptor_length_i(descriptor, i)
             r == safe_read_num(byte_stream, index, len, 0, <<0, 0, 0, 0>>)
         IN  IF ~r.ok
             THEN [chunk |-> chunk, index |-> r.index, fields |-> i + 1]
             ELSE safe_decode_from(descriptor, byte_stream, i + 1, r.index,
                      [chunk EXCEPT ![i + 1] =
                          FromLe(r.bytes[1], r.bytes[2], r.bytes[3], r.bytes[4])])

\* decode_chunk_safe_non_simd(descriptor, byte_stream)
decode_chunk_safe_non_simd(descriptor, byte_stream) ==
    safe_decode_from(descriptor, byte_stream, 0, 0, <<Zero, Zero, Zero, Zero>>)

\* u32 += with the build's overflow behaviour
add_u32(a, b, checks) ==
    LET s == Add(a, b)
    IN  [v |-> Wrap32(s), fault |-> IF checks /\ ~FitsU32(s) THEN "overflow" ELSE "none"]

\* the lines of delta_chunk_to_value_chunk from slot i on: acc holds the
\* slots done, prev the value of the slot before, fault the panic so far
RECURSIVE value_chunk_from(_, _, _, _, _, _)
value_chunk_from(delta_chunk, i, prev, acc, fault_so_far, checks) ==
    IF i > 4 THEN [chunk |-> acc, fault |-> fault_so_far]
    ELSE The({value_chunk_from(delta_chunk, i + 1, a.v, Append(acc, a.v),
                               IF a.fault # "none" THEN a.fault ELSE fault_so_far,
                               checks) :
              a \in {add_u32(delta_chunk[i], prev, checks)}})

\* delta_chunk_to_value_chunk with the carried last_top dropped
delta_chunk_to_value_chunk_no_carry(delta_chunk, last_top, checks) ==
    value_chunk_from(delta_chunk, 1, Zero, <<>>, "none", checks)

\* delta_chunk_to_value_chunk
delta_chunk_to_value_chunk(delta_chunk, last_top, checks) ==
    value_chunk_from(delta_chunk, 1, last_top, <<>>, "none", checks)

----------------------------------------------------------------------------
(* varint_gb::Iter *)

\* VarintGB::iter
gb_iter_new == [st |-> "active", descriptor_index |-> 0, last_top |-> Zero]

NoRead == [path |-> "none", di |-> 0, n |-> 0, hi |-> -1, fields |-> 0, length |-> 0]

\* the guard of line 389 one byte early: 17 bytes left go to the scalar decoder
use_safe_path_one_early(descriptor_index, n) == descriptor_index + 18 >= n

\* the guard of line 389 off by one byte
use_safe_path_off_by_one(descriptor_index, n) == descriptor_index + 16 > n

\* line 389: "If there arent 16 more bytes to take"
use_safe_path(descriptor_index, n) == descriptor_index + 17 >= n

\* Iter::next from line 389 on, with the table entry of the descriptor
gb_next_chunk(it, byte_stream, desc_entry, safe, checks, junk) ==
    LET di == it.descriptor_index
        n == Len(byte_stream)
        descriptor == At(byte_stream, di)
        it1 == [it EXCEPT !.descriptor_index = di + desc_entry.length + 1]
        \* the decoded deltas, the bytes the scalar decoder consumed and the
        \* descriptor fields it evaluated
        d == IF safe
             THEN decode_chunk_safe_non_simd(descriptor, SubSeq(byte_stream, di + 2, n))
             ELSE [chunk |-> decode_chunk_by_address(byte_stream, di + 1,
                                                     desc_entry.shuffle_sequence, junk),
                   index |-> 16, fields |-> 4]
    IN  The({The({
            IF v.fault # "none"
            THEN [it |-> it1, item |-> <<>>, fault |-> v.fault,
                  rd |-> [path |-> IF safe THEN "safe" ELSE "fast", di |-> di, n |-> n,
                          hi |-> di + dd.index, fields |-> dd.fields,
                          length |-> desc_entry.length]]
            ELSE [it |-> [it1 EXCEPT !.last_top = v.chunk[4]],
                  item |-> <<v.chunk>>, fault |-> "none",
                  rd |-> [path |-> IF safe THEN "safe" ELSE "fast", di |-> di, n |-> n,
                          hi |-> di + dd.index, fields |-> dd.fields,
                          length |-> desc_entry.length]] :
            v \in {delta_chunk_to_value_chunk(dd.chunk, it.last_top, checks)}}) :
            dd \in {d}})

\* Iter::next.  item is <<>> for None and <<chunk>> for Some(chunk); rd
\* records the path taken, the highest buffer index read (hi), the number of
\* descriptor fields the decoder evaluated and the payload length used to
\* advance the cursor.
gb_next(it, byte_stream, checks, junk) ==
    LET di == it.descriptor_index
        n == Len(byte_stream)
    IN  IF di >= n
        THEN [it |-> [it EXCEPT !.st = "done"], item |-> <<>>, fault |-> "none",
              rd |-> [NoRead EXCEPT !.path = "end", !.di = di, !.n = n]]
        ELSE
        LET descriptor == At(byte_stream, di)
            safe == use_safe_path(di, n)
        IN  The({gb_next_chunk(it, byte_stream, desc_entry, safe, checks, junk) :
                 desc_entry \in {get_entry_for_descriptor(descriptor)}})

----------------------------------------------------------------------------
(* varint_su::Iter *)

\* VarintSU::iter
su_iter_new == [st |-> "active", next_index |-> 0, last_value |-> Zero]

\* the loop of Iter::next (lines 40-49); k iterations remain, b_word is
\* int_vec[next_index]
RECURSIVE su_read(_, _, _, _, _)
su_read(int_vec, next_index, x, p, k) ==
    LET b_word == At(int_vec, next_index)
    IN  IF k = 0 \/ b_word < 128
        THEN [ok |-> TRUE, x |-> x, p |-> p, b_word |-> b_word, next_index |-> next_index]
        ELSE IF next_index + 1 >= Len(int_vec)
        THEN [ok |-> FALSE, x |-> x, p |-> p, b_word |-> b_word,
              next_index |-> next_index + 1]
        ELSE su_read(int_vec, next_index + 1, Add(x, MulSmall(p, b_word - 127)),
                     MulSmall(p, 128), k - 1)

\* Iter::next; the arithmetic is on usize, which these values never overflow
su_next(it, int_vec) ==
    IF Len(int_vec) <= it.next_index
    THEN [it |-> [it EXCEPT !.st = "done"], item |-> <<>>, fault |-> "none"]
    ELSE
    LET r == su_read(int_vec, it.next_index, Zero, U(1), 4)
    IN  IF ~r.ok
        THEN [it |-> [it EXCEPT !.next_index = r.next_index], item |-> <<>>,
              fault |-> "index"]
        ELSE LET x == Add(Add(r.x, MulSmall(r.p, r.b_word + 1)), it.last_value)
             IN  [it |-> [it EXCEPT !.last_value = x, !.next_index = r.next_index + 1],
                  item |-> <<x>>, fault |-> "none"]

----------------------------------------------------------------------------
(* The caller: inputs *)

\* increments the caller pushes on a GroupBinary factory: deltas of width 1..4
GBSteps == {1, 256, 65536, 16777216}

\* increments the caller pushes on a SimpleUnary factory: biased deltas
\* 0, 127, 128 and the smallest deltas of 3, 4 and 5 bytes
SUSteps == {1, 128, 129, 16513, 2113665, 270549121}

\* values at or above top: top again, top plus an increment, u32::MAX
Ordered(top, steps) ==
    {top, U32MAX} \cup {x \in {Add(top, U(s)) : s \in steps} : FitsU32(x)}

\* any value: the ordered ones and one below top
AnyArg(top, steps) == Ordered(top, steps) \cup {Zero}

\* the bytes an out-of-bounds vector load can bring in
JunkBytes == {0, 255}

NoOp == <<"-", Zero, FALSE>>

Op(track, name, x) ==
    IF track THEN <<name, x, lastOp[1] = name /\ lastOp[2] = x>> ELSE lastOp

NoEnc == [bytes |-> <<>>, final |-> Zero]

\* the strides between neighbouring bytes of a chunk: all bytes equal,
\* ascending, ascending in steps of 15, descending
ProbeStrides == {0, 1, 15, 255}

\* a chunk of 16 bytes: byte k is 85 * seed + stride * k (mod 256)
ProbeBytes(seed, stride) == [k \in 1..16 |-> (85 * seed + stride * (k - 1)) % 256]

\* the chunks handed to the chunk decoders
ProbeChunks == {ProbeBytes(seed, stride) : seed \in 0..MaxProbeSeed, stride \in ProbeStrides}

\* fast and safe are <<>> until the decoder has run, then its [u32; 4];
\* consumed is the number of bytes the scalar decoder read, fields the
\* number of descriptor fields it evaluated, length the table's total length
NoProbe == [descriptor |-> 0, bytes |-> <<>>, fast |-> <<>>, safe |-> <<>>,
            consumed |-> 0, fields |-> 0, length |-> 0]

----------------------------------------------------------------------------
(* State machine *)

Init ==
    /\ codec \in {"gb", "su"}
    /\ gb = GBFactory_new
    /\ su = SUFactory_new
    /\ gb_seq = [byte_stream |-> <<>>, len |-> 0]
    /\ su_seq = [bytes |-> <<>>, len |-> 0]
    /\ gb_iter = [st |-> "none", descriptor_index |-> 0, last_top |-> Zero]
    /\ su_iter = [st |-> "none", next_index |-> 0, last_value |-> Zero]
    /\ out = <<>>
    /\ pushed = <<>>
    /\ src = <<>>
    /\ ncalls = 0
    /\ nfinal = 0
    /\ lastOp = NoOp
    /\ fault = "none"
    /\ rd = NoRead
    /\ enc = NoEnc
    /\ probe = NoProbe

\* the caller may push: in the lifecycle specification only before the
\* factory is finalized, in the call-by-call specification at any time
MayPush(track, max) ==
    /\ fault = "none"
    /\ IF track THEN ncalls < MaxCalls ELSE nfinal = 0 /\ ncalls < max

Args(track, top, steps) == IF track THEN AnyArg(top, steps) ELSE Ordered(top, steps)

\* fact.push_int(x) on the GroupBinary factory
GBPushInt(track) ==
    /\ codec = "gb"
    /\ MayPush(track, MaxPushGB)
    /\ \E x \in Args(track, gb.top, GBSteps), checks \in BOOLEAN :
         \E r \in {gb_push_int(gb, x, checks)} :
             /\ gb' = r.f
             /\ fault' = r.fault
             /\ pushed' = Append(pushed, x)
             /\ lastOp' = Op(track, "push_int", x)
    /\ ncalls' = ncalls + 1
    /\ UNCHANGED <<codec, su, gb_seq, su_seq, gb_iter, su_iter, out, src, nfinal, rd, enc, probe>>

\* fact.push_if_not_on_top(num) on the GroupBinary factory
GBPushIfNotOnTop(track) ==
    /\ codec = "gb"
    /\ MayPush(track, MaxPushGB)
    /\ \E num \in Args(track, gb.top, GBSteps), checks \in BOOLEAN :
         \E r \in {gb_push_if_not_on_top(gb, num, checks)} :
             /\ gb' = r.f
             /\ fault' = r.fault
             /\ pushed' = IF gb.top # num THEN Append(pushed, num) ELSE pushed
             /\ lastOp' = Op(track, "push_if_not_on_top", num)
    /\ ncalls' = ncalls + 1
    /\ UNCHANGED <<codec, su, gb_seq, su_seq, gb_iter, su_iter, out, src, nfinal, rd, enc, probe>>

\* fact.into_varint_gb(); the model follows the sequence handed out last
GBFinalize(track) ==
    /\ codec = "gb"
    /\ fault = "none"
    /\ nfinal < MaxFinalize
    /\ \E r \in {gb_into_varint_gb(gb)} :
           /\ gb' = r.f
           /\ gb_seq' = r.seq
    /\ gb_iter' = [st |-> "none", descriptor_index |-> 0, last_top |-> Zero]
    /\ out' = <<>>
    /\ rd' = NoRead
    /\ src' = pushed
    /\ pushed' = <<>>
    /\ nfinal' = nfinal + 1
    /\ lastOp' = Op(track, "into_varint", Zero)
    /\ UNCHANGED <<codec, su, su_seq, su_iter, ncalls, fault, enc, probe>>

\* seq.iter(&table)
GBIter ==
    /\ codec = "gb"
    /\ fault = "none"
    /\ nfinal >= 1
    /\ gb_iter.st = "none"
    /\ gb_iter' = gb_iter_new
    /\ UNCHANGED <<codec, gb, su, gb_seq, su_seq, su_iter, out, pushed, src,
                   ncalls, nfinal, lastOp, fault, rd, enc, probe>>

\* iterator.next() on the GroupBinary iterator
GBNext ==
    /\ codec = "gb"
    /\ fault = "none"
    /\ gb_iter.st = "active"
    /\ \E checks \in BOOLEAN, junk \in JunkBytes :
         \E r \in {gb_next(gb_iter, gb_seq.byte_stream, checks, junk)} :
             /\ gb_iter' = r.it
             /\ fault' = r.fault
             /\ rd' = r.rd
             /\ out' = IF r.item = <<>> THEN out
                       ELSE out \o <<r.item[1][1], r.item[1][2], r.item[1][3], r.item[1][4]>>
    /\ UNCHANGED <<codec, gb, su, gb_seq, su_seq, su_iter, pushed, src,
                   ncalls, nfinal, lastOp, enc, probe>>

\* fact.push_int(int) on the SimpleUnary factory
SUPushInt(track) ==
    /\ codec = "su"
    /\ MayPush(track, MaxPushSU)
    /\ \E int \in Args(track, su.top, SUSteps), checks \in BOOLEAN :
         \E r \in {su_push_int(su, int, checks)} :
             /\ su' = r.f
             /\ fault' = r.fault
             /\ enc' = r.enc
             /\ pushed' = Append(pushed, int)
             /\ lastOp' = Op(track, "push_int", int)
    /\ ncalls' = ncalls + 1
    /\ UNCHANGED <<codec, gb, gb_seq, su_seq, gb_iter, su_iter, out, src, nfinal, rd, probe>>

\* fact.push_if_not_on_top(int) on the SimpleUnary factory
SUPushIfNotOnTop(track) ==
    /\ codec = "su"
    /\ MayPush(track, MaxPushSU)
    /\ \E int \in Args(track, su.top, SUSteps), checks \in BOOLEAN :
         \E r \in {su_push_if_not_on_top(su, int, checks)} :
             /\ su' = r.f
             /\ fault' = r.fault
             /\ enc' = r.enc
             /\ pushed' = IF int # su.top THEN Append(pushed, int) ELSE pushed
             /\ lastOp' = Op(track, "push_if_not_on_top", int)
    /\ ncalls' = ncalls + 1
    /\ UNCHANGED <<codec, gb, gb_seq, su_seq, gb_iter, su_iter, out, src, nfinal, rd, probe>>

\* fact.into_varint_su()
SUFinalize(track) ==
    /\ codec = "su"
    /\ fault = "none"
    /\ nfinal < MaxFinalize
    /\ \E r \in {su_into_varint_su(su)} :
           /\ su' = r.f
           /\ su_seq' = r.seq
    /\ su_iter' = [st |-> "none", next_index |-> 0, last_value |-> Zero]
    /\ out' = <<>>
    /\ src' = pushed
    /\ pushed' = <<>>
    /\ nfinal' = nfinal + 1
    /\ lastOp' = Op(track, "into_varint", Zero)
    /\ UNCHANGED <<codec, gb, gb_seq, gb_iter, ncalls, fault, rd, enc, probe>>

\* seq.iter()
SUIter ==
    /\ codec = "su"
    /\ fault = "none"
    /\ nfinal >= 1
    /\ su_iter.st = "none"
    /\ su_iter' = su_iter_new
    /\ UNCHANGED <<codec, gb, su, gb_seq, su_seq, gb_iter, out, pushed, src,
                   ncalls, nfinal, lastOp, fault, rd, enc, probe>>

\* iterator.next() on the SimpleUnary iterator
SUNext ==
    /\ codec = "su"
    /\ fault = "none"
    /\ su_iter.st = "active"
    /\ \E r \in {su_next(su_iter, su_seq.bytes)} :
           /\ su_iter' = r.it
           /\ fault' = r.fault
           /\ out' = out \o r.item
    /\ UNCHANGED <<codec, gb, su, gb_seq, su_seq, gb_iter, pushed, src,
                   ncalls, nfinal, lastOp, rd, enc, probe>>

\* The lifecycle of the sources' callers: push in order, finalize, iterate
Next ==
    \/ GBPushInt(FALSE)
    \/ GBPushIfNotOnTop(FALSE)
    \/ GBFinalize(FALSE)
    \/ GBIter
    \/ GBNext
    \/ SUPushInt(FALSE)
    \/ SUPushIfNotOnTop(FALSE)
    \/ SUFinalize(FALSE)
    \/ SUIter
    \/ SUNext

Spec == Init /\ [][Next]_vars

\* Any calls on a factory, in any order and with any arguments
NextCalls ==
    \/ GBPushInt(TRUE)
    \/ GBPushIfNotOnTop(TRUE)
    \/ GBFinalize(TRUE)
    \/ SUPushInt(TRUE)
    \/ SUPushIfNotOnTop(TRUE)
    \/ SUFinalize(TRUE)

SpecCalls == Init /\ [][NextCalls]_vars

\* A caller of the chunk decoders holds a descriptor byte and 16 bytes
InitDecode ==
    /\ codec = "gb"
    /\ gb = GBFactory_new
    /\ su = SUFactory_new
    /\ gb_seq = [byte_stream |-> <<>>, len |-> 0]
    /\ su_seq = [bytes |-> <<>>, len |-> 0]
    /\ gb_iter = [st |-> "none", descriptor_index |-> 0, last_top |-> Zero]
    /\ su_iter = [st |-> "none", next_index |-> 0, last_value |-> Zero]
    /\ out = <<>>
    /\ pushed = <<>>
    /\ src = <<>>
    /\ ncalls = 0
    /\ nfinal = 0
    /\ lastOp = NoOp
    /\ fault = "none"
    /\ rd = NoRead
    /\ enc = NoEnc
    /\ \E descriptor \in 0..255, bytes \in ProbeChunks :
           probe = [NoProbe EXCEPT !.descriptor = descriptor, !.bytes = bytes]

\* decode_chunk_by_address(addr of chunk[0], table.get_shuffle_for_descriptor(descriptor))
DecodeFast ==
    /\ probe.bytes # <<>>
    /\ probe.fast = <<>>
    /\ \E junk \in JunkBytes :
         \E desc_entry \in {get_entry_for_descriptor(probe.descriptor)} :
             probe' = [probe EXCEPT
                          !.fast = decode_chunk_by_address(probe.bytes, 0,
                                       desc_entry.shuffle_sequence, junk),
                          !.length = desc_entry.length]
    /\ UNCHANGED <<codec, gb, su, gb_seq, su_seq, gb_iter, su_iter, out, pushed, src,
                   ncalls, nfinal, lastOp, fault, rd, enc>>

\* decode_chunk_safe_non_simd(descriptor, &chunk)
DecodeSafe ==
    /\ probe.bytes # <<>>
    /\ probe.safe = <<>>
    /\ \E d \in {decode_chunk_safe_non_simd(probe.descriptor, probe.bytes)} :
           probe' = [probe EXCEPT !.safe = d.chunk, !.consumed = d.index,
                                  !.fields = d.fields]
    /\ UNCHANGED <<codec, gb, su, gb_seq, su_seq, gb_iter, su_iter, out, pushed, src,
                   ncalls, nfinal, lastOp, fault, rd, enc>>

\* Both chunk decoders on the same descriptor and bytes, in either order
NextDecode ==
    \/ DecodeFast
    \/ DecodeSafe

SpecDecode == InitDecode /\ [][NextDecode]_vars

----------------------------------------------------------------------------
(* Properties *)

Ceil4(n) == (n + 3) \div 4

Min(a, b) == IF a < b THEN a ELSE b

\* a sealed GroupBinary sequence built by the pushes in src on a new factory,
\* and its iterator run to the end (next returned None)
GBIterated == codec = "gb" /\ nfinal = 1 /\ gb_iter.st = "done"

SUIterated == codec = "su" /\ nfinal = 1 /\ su_iter.st = "done"

\* C1: GroupBinary round-trip.  For every strictly increasing sequence pushed
\* with push_int (the empty one, a single value and a first value of 0
\* included), the chunks of VarintGB::iter, concatenated and cut to len()
\* values, are the sequence, and len() is its length.
C1_RoundTripGB ==
    (GBIterated /\ StrictlyIncreasing(src)) =>
        /\ gb_seq.len = Len(src)
        /\ Len(out) >= gb_seq.len
        /\ SubSeq(out, 1, gb_seq.len) = src

\* a five-value sequence starting at 0 whose first group went through the
\* vector path has been decoded to the end
C1_Witness ==
    /\ GBIterated
    /\ StrictlyIncreasing(src)
    /\ Len(src) = 5
    /\ src[1] = Zero
    /\ Len(gb_seq.byte_stream) > 17
    /\ SubSeq(out, 1, 5) = src

\* C2 as stated: SimpleUnary round-trip for every strictly increasing
\* sequence, a first value of 0 included: iter yields the sequence, len() is
\* its length, and no read goes past the end of the buffer.
C2_RoundTripSU_AsClaimed ==
    (codec = "su" /\ nfinal = 1 /\ StrictlyIncreasing(src)) =>
        /\ fault # "index"
        /\ su_seq.len = Len(src)
        /\ (su_iter.st = "done" => out = src)

\* C2 amended: the same for every strictly increasing sequence whose first
\* value is at least 1 (push_int(0) on a new factory is dropped, as top is 0).
C2_RoundTripSU ==
    (codec = "su" /\ nfinal = 1 /\ StrictlyIncreasing(src)
        /\ (src # <<>> => src[1] # Zero)) =>
        /\ fault # "index"
        /\ su_seq.len = Len(src)
        /\ (su_iter.st = "done" => out = src)

\* three values with multi-byte entries have been decoded to the end
C2_Witness ==
    /\ SUIterated
    /\ StrictlyIncreasing(src)
    /\ Len(src) = 3
    /\ src[1] # Zero
    /\ Len(su_seq.bytes) >= 7
    /\ out = src

\* C3: fast-path read safety.  Every call of the GroupBinary Iter::next does
\* the 16-byte load only when the 16 positions after the descriptor are all
\* inside the buffer, takes the scalar path whenever
\* descriptor_index + 17 >= buffer length, and reads no index >= the length.
C3_FastPathReadSafety ==
    codec = "gb" =>
        /\ rd.hi < Len(gb_seq.byte_stream)
        /\ (rd.path = "fast" =>
               \A k \in 1..16 : rd.di + k < Len(gb_seq.byte_stream))
        /\ (rd.path \in {"safe", "fast"} /\ rd.di + 17 >= rd.n => rd.path = "safe")

\* a vector load whose last byte is the last but one of the buffer
C3_Witness ==
    /\ codec = "gb"
    /\ rd.path = "fast"
    /\ rd.hi = Len(gb_seq.byte_stream) - 2

\* C4 as stated: walking a sealed GroupBinary buffer from 0 by
\* 1 + total_length(descriptor) lands exactly on the buffer length after
\* exactly ceil(count/4) steps, for every count, partial final groups included.
C4_WalkEndsOnLength_AsClaimed ==
    GBIterated =>
        /\ Len(out) \div 4 = Ceil4(gb_seq.len)
        /\ gb_iter.descriptor_index = Len(gb_seq.byte_stream)

\* C4 amended: the walk takes exactly ceil(count/4) steps, stays inside the
\* buffer before the last of them, and ends on the buffer length plus the
\* number of unpushed slots of the final group, (4 - count mod 4) mod 4:
\* exactly on the length only when count is a multiple of 4.
C4_WalkEndsPastLength ==
    (codec = "gb" /\ nfinal = 1 /\ gb_iter.st # "none") =>
        LET steps == Len(out) \div 4
            groups == Ceil4(gb_seq.len)
            unpushed == (4 - (gb_seq.len % 4)) % 4
        IN  /\ steps <= groups
            /\ (steps < groups => gb_iter.descriptor_index < Len(gb_seq.byte_stream))
            /\ (steps = groups =>
                   gb_iter.descriptor_index = Len(gb_seq.byte_stream) + unpushed)
            /\ (gb_iter.st = "done" => steps = groups)

\* five values: the walk took two steps and ended three past the length
C4_Witness ==
    /\ GBIterated
    /\ gb_seq.len = 5
    /\ Len(out) = 8
    /\ gb_iter.descriptor_index = Len(gb_seq.byte_stream) + 3

\* C5 as stated: a finalize leaves the factory's buffer empty, and a second
\* finalize with no push in between hands out an empty sequence: no bytes,
\* len() = 0, nothing to iterate.
C5_SecondFinalizeEmpty_AsClaimed ==
    /\ (nfinal >= 1 /\ pushed = <<>>) => (gb.byte_stream = <<>> /\ su.vec = <<>>)
    /\ (nfinal >= 2 /\ src = <<>>) =>
          /\ gb_seq.byte_stream = <<>> /\ gb_seq.len = 0
          /\ su_seq.bytes = <<>> /\ su_seq.len = 0
          /\ (gb_iter.st = "done" \/ su_iter.st = "done" => out = <<>>)

\* the running top of the driven factory
Top == IF codec = "gb" THEN gb.top ELSE su.top

\* C6 as stated: a push_int(x) with x below the last pushed value is
\* surfaced to the caller before any mutation: the call ends in an error and
\* the factory's buffer, count and top are what they were before the call.
C6_ViolationBeforeMutation_AsClaimed ==
    [][(/\ ncalls' = ncalls + 1
        /\ lastOp'[1] = "push_int"
        /\ Lt(lastOp'[2], Top))
       => (fault' # "none" /\ gb' = gb /\ su' = su)]_vars

\* C7: idempotent dedup.  A push_if_not_on_top(v) that follows a
\* push_if_not_on_top(v) leaves buffer, count and top (the whole factory) as
\* they were; so does a SimpleUnary push_int(v) with v equal to top.
C7_DedupIdempotent ==
    [][(\/ (lastOp'[1] = "push_if_not_on_top" /\ lastOp'[3])
        \/ (/\ codec = "su"
            /\ ncalls' = ncalls + 1
            /\ lastOp'[1] = "push_int"
            /\ lastOp'[2] = su.top))
       => (gb' = gb /\ su' = su)]_vars

\* push_if_not_on_top(v) was called twice in a row on a GroupBinary factory
\* that holds values, v being a new value at the first call
C7_Witness ==
    /\ codec = "gb"
    /\ lastOp[1] = "push_if_not_on_top"
    /\ lastOp[3]
    /\ lastOp[2] # Zero
    /\ gb.top = lastOp[2]
    /\ gb.len >= 2
    /\ fault = "none"

\* the slots pushed into the group that the last Iter::next decoded
SlotsOfLastGroup == Min(4, gb_seq.len - (Len(out) - 4))

\* C8 as stated: iterating a sealed GroupBinary sequence of count values
\* yields exactly count integers, and the unused descriptor fields of a
\* partial final group are never read: not for the payload length (the cursor
\* advances by the pushed payload only) and not by the slot decoder.
C8_StopsAfterCount_AsClaimed ==
    (codec = "gb" /\ nfinal = 1) =>
        /\ (gb_iter.st = "done" => Len(out) = gb_seq.len)
        /\ (rd.path \in {"safe", "fast"} =>
               /\ rd.fields <= SlotsOfLastGroup
               /\ rd.di + 1 + rd.length <= rd.n)

\* C8 amended: iteration yields ceil(count/4) chunks of four integers; the
\* first count are the decoded values and the slots after them repeat the
\* last one.  For a final group of k < 4 values the unused fields are read:
\* the payload length that advances the cursor sums all four fields (the
\* pushed payload plus 4 - k), and the scalar decoder evaluates field k
\* before it finds the buffer exhausted; no byte past the buffer is read.
C8_YieldsWholeChunks ==
    (codec = "gb" /\ nfinal = 1) =>
        /\ (gb_iter.st = "done" =>
               /\ Len(out) = 4 * Ceil4(gb_seq.len)
               /\ \A i \in (gb_seq.len + 1)..Len(out) : out[i] = out[gb_seq.len])
        /\ (rd.path \in {"safe", "fast"} =>
               LET k == SlotsOfLastGroup
               IN  /\ rd.fields = Min(4, k + 1)
                   /\ (k = 4 => rd.di + 1 + rd.length <= rd.n)
                   /\ (k < 4 => rd.path = "safe"
                                /\ rd.di + 1 + rd.length = rd.n + (4 - k))
                   /\ rd.hi < rd.n)

\* a final group of one value has just been decoded: two fields evaluated,
\* cursor advance three past the end, and the chunk padded with the last value
C8_Witness ==
    /\ codec = "gb" /\ nfinal = 1
    /\ gb_seq.len = 5
    /\ Len(out) = 8
    /\ rd.path = "safe"
    /\ rd.fields = 2
    /\ rd.di + 1 + rd.length = rd.n + 3
    /\ out[8] = out[5]

\* C9: SimpleUnary entry width.  A push_int(x) with top < x appends n bytes,
\* 1 <= n <= 5, the first n - 1 with the high bit set, and the value cast to
\* the final byte is below 256; a delta of 127 takes 1 byte and 128 takes 2.
C9_EntryWidth ==
    [][(codec = "su" /\ ncalls' = ncalls + 1 /\ Lt(su.top, su'.top))
       => LET delta == SubWrap32(SubWrap32(su'.top, su.top), U(1))
              n == Len(enc'.bytes)
          IN  /\ su'.vec = su.vec \o enc'.bytes
              /\ n \in 1..5
              /\ \A i \in 1..(n - 1) : enc'.bytes[i] >= 128
              /\ enc'.final[1] = 0 /\ enc'.final[2] < 256
              /\ enc'.bytes[n] = enc'.final[2]
              /\ (delta = U(127) => n = 1)
              /\ (delta = U(128) => n = 2)]_vars

\* a five-byte entry has been appended after a two-byte one
C9_Witness ==
    /\ codec = "su"
    /\ fault = "none"
    /\ Len(enc.bytes) = 5
    /\ Len(su.vec) = 7
    /\ su.vec[1] = 128

\* the deltas of a pushed sequence (the first against 0)
Deltas(s) == [i \in 1..Len(s) |-> SubWrap32(s[i], IF i = 1 THEN Zero ELSE s[i - 1])]

\* the smallest width in 1..4 that holds a delta
Width(d) == IF d[1] = 0 /\ d[2] < 256 THEN 1
            ELSE IF d[1] = 0 THEN 2
            ELSE IF d[1] < 256 THEN 3
            ELSE 4

\* byte k (0..3) of a delta, least significant first
ByteOf(d, k) == IF k = 0 THEN d[2] % 256
                ELSE IF k = 1 THEN d[2] \div 256
                ELSE IF k = 2 THEN d[1] % 256
                ELSE d[1] \div 256

LeBytesOf(d) == [k \in 1..Width(d) |-> ByteOf(d, k - 1)]

RECURSIVE PayloadOf(_)
PayloadOf(ds) == IF ds = <<>> THEN <<>> ELSE LeBytesOf(Head(ds)) \o PayloadOf(Tail(ds))

RECURSIVE DescriptorOf(_)
DescriptorOf(ds) ==
    IF ds = <<>> THEN 0 ELSE (Width(Head(ds)) - 1) + 4 * DescriptorOf(Tail(ds))

\* the group layout of the claim: descriptor, then the deltas in slot order
RECURSIVE LayoutOf(_)
LayoutOf(ds) ==
    IF ds = <<>> THEN <<>>
    ELSE LET g == SubSeq(ds, 1, Min(4, Len(ds)))
         IN  <<DescriptorOf(g)>> \o PayloadOf(g) \o LayoutOf(SubSeq(ds, Len(g) + 1, Len(ds)))

\* C10: GroupBinary group layout.  After push_int calls with non-decreasing
\* values every group is a descriptor byte, then the little-endian bytes of
\* its deltas in slot order, slot i in its smallest width w_i of 1..4, bits
\* [2i+1:2i] of the descriptor being w_i - 1 and 0 for unpushed slots.
C10_GroupLayout ==
    (codec = "gb" /\ fault = "none") =>
        /\ (nfinal = 0 /\ NonDecreasing(pushed) =>
               gb.byte_stream = LayoutOf(Deltas(pushed)))
        /\ (nfinal = 1 /\ NonDecreasing(src) =>
               gb_seq.byte_stream = LayoutOf(Deltas(src)))

\* five values pushed, among them deltas of 0 and of 2^24 in the first group
C10_Witness ==
    /\ codec = "gb" /\ nfinal = 0 /\ fault = "none"
    /\ Len(pushed) = 5
    /\ pushed[1] = Zero
    /\ pushed[2] = <<256, 0>>
    /\ gb.byte_stream[1] = 12

----------------------------------------------------------------------------
(* The chunk decoders against each other *)

\* both decoders have run on the probe's descriptor and bytes
ProbeDecoded == probe.fast # <<>> /\ probe.safe # <<>>

\* C11: for every descriptor byte and every 16 bytes that follow it, the
\* table's shuffle mask applied to the bytes gives the same four raw deltas
\* as decode_chunk_safe_non_simd on the same descriptor and bytes, and the
\* table's total length is the number of bytes the scalar decoder consumed.
C11_FastSafeAgree ==
    ProbeDecoded =>
        /\ probe.fast = probe.safe
        /\ probe.length = probe.consumed
        /\ probe.fields = 4

\* descriptor 0b00011011 (widths 4, 3, 2, 1) over the bytes 85, 86, ...: both
\* decoders ran, ten bytes were consumed, the last delta is the byte 94
C11_Witness ==
    /\ ProbeDecoded
    /\ probe.descriptor = 27
    /\ probe.bytes = ProbeBytes(1, 1)
    /\ probe.consumed = 10
    /\ probe.fast[4] = <<0, 94>>
    /\ probe.safe[1] = FromLe(85, 86, 87, 88)

----------------------------------------------------------------------------
(* Path selection in Iter::next *)

\* the last next decoded a group
GroupRead == codec = "gb" /\ rd.path \in {"fast", "safe"}

\* bytes of the buffer after the descriptor byte of the group read last
BytesAfterDescriptor == rd.n - rd.di - 1

====
